---------------------------- MODULE Spec2Model ----------------------------
(***************************************************************************)
(* Model of locsat/tables/compute_iasp91_locsat_table.py: a command-line   *)
(* program that writes a LOCSAT travel-time table  iasp91.<phase>  for a   *)
(* constant group speed.                                                   *)
(*                                                                         *)
(* Numbers.  A float is a record [kind, neg, mag].  A finite float holds   *)
(* its magnitude in thousandths (mag = 340 is 0.34), the resolution of     *)
(* the finest format of the program (%12.3f); the sign is kept apart so    *)
(* that -0.0 exists, as it does in IEEE arithmetic.  inf and nan are       *)
(* kinds of their own.  All arithmetic stays inside 32 bit integers.       *)
(*                                                                         *)
(* Files.  A file's content is the sequence of the pieces written to it:   *)
(* every formatted field or text is one piece and every newline is the     *)
(* piece NL, so two files hold the same bytes when they hold the same      *)
(* pieces, and a line is a maximal run of pieces that ends in NL.          *)
(***************************************************************************)
EXTENDS Integers, Sequences, FiniteSets, TLC

VARIABLES
    fs,         \* the working directory: file name -> content
    z_samples,  \* module global, line 27 (km)
    d_samples,  \* module global, line 28 (degrees)
    r_samples,  \* module global, line 29 (km)
    argv,       \* command line of the running process
    args,       \* namespace returned by parse_arguments
    file_name,  \* local of generate_travel_time_table
    f,          \* the open file handle (the name it writes to) or NoFile
    pc,         \* position of the process in the script
    i,          \* index of the outer loops (1-based: sample being handled)
    k,          \* index of the inner loop over r_samples
    stdout,     \* lines printed by the process
    stderr,     \* diagnostics of the interpreter and its libraries
    status,     \* exit status of the process, or Running
    budget,     \* invocations still to be started
    prev,       \* history: the last invocation that ran to completion
    fs0         \* history: the working directory when the process started

vars == <<fs, z_samples, d_samples, r_samples, argv, args, file_name, f, pc,
          i, k, stdout, stderr, status, budget, prev, fs0>>

----------------------------------------------------------------------------
(* Bounds of the model *)

MaxRuns == 3

MaxDepths == 11

MaxDists == 12

----------------------------------------------------------------------------
(* Floats *)

Fin(neg, mag) == [kind |-> "fin", neg |-> neg, mag |-> mag]

Inf(neg) == [kind |-> "inf", neg |-> neg, mag |-> 0]

NaN == [kind |-> "nan", neg |-> FALSE, mag |-> 0]

Max(a, b) == IF a >= b THEN a ELSE b

Min(a, b) == IF a <= b THEN a ELSE b

\* a / b rounded to the nearest integer, for a >= 0 and b > 0
DivRound(a, b) == (a \div b) + (IF 2 * (a % b) >= b THEN 1 ELSE 0)

\* (a * 1000) / b rounded to the nearest integer, without forming a * 1000
DivRoundMilli(a, b) == (a \div b) * 1000 + DivRound((a % b) * 1000, b)

\* The largest e in lo..hi with e * (2a + e) <= b * b, i.e. with
\* (a + e)^2 <= a^2 + b^2; the product is compared through a division so
\* that it is never formed.
RECURSIVE Excess(_, _, _, _)
Excess(a, b, lo, hi) ==
    IF lo >= hi THEN lo
    ELSE LET mid == (lo + hi + 1) \div 2
         IN  IF mid <= (b * b) \div (2 * a + mid)
             THEN Excess(a, b, mid, hi)
             ELSE Excess(a, b, lo, mid - 1)

\* np.sqrt(z**2 + r**2) of two finite floats (line 85): the integer part of
\* the root, in thousandths.
Hypot(z, r) ==
    LET a == Max(z.mag, r.mag)
        b == Min(z.mag, r.mag)
    IN  IF a = 0 THEN Fin(FALSE, 0) ELSE Fin(FALSE, a + Excess(a, b, 0, b))

\* Mutant of Divide: a division that guards against a zero divisor.
DivideGuarded(x, s) ==
    IF s.mag = 0
    THEN [val |-> Fin(FALSE, 0), warn |-> "none"]
    ELSE [val |-> Fin(s.neg, DivRoundMilli(x.mag, s.mag)), warn |-> "none"]

\* numpy's scalar division x / s of a finite x >= 0 by a finite s (line 85):
\* the quotient and the floating-point error numpy flags with it.
Divide(x, s) ==
    IF s.mag = 0
    THEN IF x.mag = 0
         THEN [val |-> NaN, warn |-> "invalid"]
         ELSE [val |-> Inf(s.neg), warn |-> "divide"]
    ELSE [val |-> Fin(s.neg, DivRoundMilli(x.mag, s.mag)), warn |-> "none"]

\* obspy.geodetics.degrees2kilometers with the default radius 6371 km:
\* degrees * (2 * 6371 * pi / 360) = degrees * 111.19493 (line 29)
degrees2kilometers(d) ==
    Fin(d.neg, d.mag * 111 + DivRound(d.mag * 19493, 100000))

----------------------------------------------------------------------------
(* Text *)

NL == "\n"

Digit == <<"0", "1", "2", "3", "4", "5", "6", "7", "8", "9">>

RECURSIVE Str(_)
\* the string of a sequence of characters
Str(cs) == IF cs = <<>> THEN "" ELSE Head(cs) \o Str(Tail(cs))

RECURSIVE IntStr(_)
\* decimal digits of a natural number
IntStr(n) == IF n < 10 THEN Digit[n + 1] ELSE IntStr(n \div 10) \o Digit[(n % 10) + 1]

RECURSIVE ZeroFill(_, _)
\* s with zeros in front up to n characters
ZeroFill(s, n) == IF Len(s) >= n THEN s ELSE ZeroFill("0" \o s, n)

RECURSIVE RJust(_, _)
\* s with blanks in front up to n characters; a longer s is kept whole
RJust(s, n) == IF Len(s) >= n THEN s ELSE RJust(" " \o s, n)

\* "%.2f" and "%.3f" of a float, without the field width
Fixed(x, prec) ==
    LET sign == IF x.neg THEN "-" ELSE ""
        m    == IF prec = 3 THEN x.mag ELSE DivRound(x.mag, 10)
        unit == IF prec = 3 THEN 1000 ELSE 100
    IN  CASE x.kind = "nan" -> "nan"
          [] x.kind = "inf" -> sign \o "inf"
          [] OTHER -> sign \o IntStr(m \div unit) \o "."
                           \o ZeroFill(IntStr(m % unit), prec)

\* f"{z:8.2f}" (lines 70, 77, 83)
Fmt8_2(x) == RJust(Fixed(x, 2), 8)

\* Mutant of Fmt12_3: two decimals, as in the format of the samples.
Fmt12_2(x) == RJust(Fixed(x, 2), 12)

\* f"{travel_time:12.3f}" (line 86)
Fmt12_3(x) == RJust(Fixed(x, 3), 12)

\* str(float): used only for the diagnostic on standard output (line 61)
Repr(x) == Fixed(x, 3)

IsDigit(c) == \E n \in 1..10 : Digit[n] = c

DigitVal(c) == (CHOOSE n \in 1..10 : Digit[n] = c) - 1

RECURSIVE Number(_)
\* the value of a sequence of digits
Number(cs) == IF cs = <<>> THEN 0 ELSE Number(SubSeq(cs, 1, Len(cs) - 1)) * 10 + DigitVal(cs[Len(cs)])

\* float() raises ValueError
ParseError == [ok |-> FALSE, val |-> NaN]

\* float(text) for text given as a sequence of characters (type=float,
\* line 43): an optional sign, digits, and optionally a point and up to three
\* more digits; anything else of the texts used here is no number.
ParseFloat(cs) ==
    LET neg   == cs # <<>> /\ cs[1] = "-"
        body  == IF neg THEN Tail(cs) ELSE cs
        dots  == {n \in 1..Len(body) : body[n] = "."}
        point == IF dots = {} THEN Len(body) + 1 ELSE CHOOSE n \in dots : TRUE
        whole == SubSeq(body, 1, point - 1)
        frac  == SubSeq(body, point + 1, Len(body))
    IN  IF \/ Cardinality(dots) > 1
           \/ whole \o frac = <<>>
           \/ Len(frac) > 3
           \/ \E n \in 1..Len(whole) : ~IsDigit(whole[n])
           \/ \E n \in 1..Len(frac) : ~IsDigit(frac[n])
        THEN ParseError
        ELSE [ok  |-> TRUE,
              val |-> Fin(neg, Number(whole) * 1000
                               + Number(frac \o [n \in 1..(3 - Len(frac)) |-> "0"]))]

----------------------------------------------------------------------------
(* The file system and the process *)

NoFile == "<none>"

\* the exit status of a process that has not ended
Running == -1

NoArgs == [phase |-> <<>>, group_speed |-> NaN, verbose |-> FALSE]

\* the history before any invocation has run to completion
NoRun == [phase |-> <<>>, group_speed |-> NaN, verbose |-> FALSE,
          file_name |-> NoFile, content |-> <<>>]

NoCommandLine == [opts |-> {}, p |-> <<>>, c |-> <<>>]

\* f.write(text) on the open file name
Write(fsys, name, pieces) == [fsys EXCEPT ![name] = @ \o pieces]

\* Mutant of Truncate: the file opened for appending, open(name, "a").
TruncateKeep(fsys, name) ==
    [n \in (DOMAIN fsys) \cup {name} |-> IF n \in DOMAIN fsys THEN fsys[n] ELSE <<>>]

\* open(name, "w") on an existing directory: the file exists and is empty
Truncate(fsys, name) ==
    [n \in (DOMAIN fsys) \cup {name} |-> IF n = name THEN <<>> ELSE fsys[n]]

\* The working directory of the model has no subdirectories, so a name with
\* a path separator names a file in a directory that does not exist.
CanOpen(name_chars) == \A n \in 1..Len(name_chars) : name_chars[n] # "/"

\* f"iasp91.{phase}" (line 57)
FileName(phase) == "iasp91." \o Str(phase)

\* Mutant of HeaderPieces: the count written as the literal of the default
\* grid instead of len(z_samples).
HeaderPiecesOneDepth(phase, zs) ==
    << "n # " \o Str(phase) \o " travel-time tables", NL,
       "1 # number of depth samples", NL >>

\* lines 65-66
HeaderPieces(phase, zs) ==
    << "n # " \o Str(phase) \o " travel-time tables", NL,
       IntStr(Len(zs)) \o " # number of depth samples", NL >>

\* Mutant of SamplePieces: the two tests of lines 71 and 78 as two
\* statements, so that a last sample that is also a tenth one gets two
\* newlines.
SamplePiecesTwoTests(samples, n) ==
    <<Fmt8_2(samples[n])>>
        \o (IF n % 10 = 0 THEN <<NL>> ELSE <<>>)
        \o (IF n = Len(samples) THEN <<NL>> ELSE <<>>)

\* one pass of the loops of lines 69-72 and 76-79: the n-th sample, and the
\* newline after every tenth and after the last one
SamplePieces(samples, n) ==
    <<Fmt8_2(samples[n])>>
        \o (IF n % 10 = 0 \/ n = Len(samples) THEN <<NL>> ELSE <<>>)

\* Mutant of DistanceCountPieces: the count of the depth samples, as on
\* line 66, instead of len(d_samples).
DistanceCountPiecesDepths(ds) ==
    << IntStr(Len(z_samples)) \o " # number of distance samples", NL >>

\* line 75
DistanceCountPieces(ds) ==
    << IntStr(Len(ds)) \o " # number of distance samples", NL >>

\* line 83
BlockHeaderPieces(z) ==
    << "# Travel-time/amplitude for z = " \o Fmt8_2(z), NL >>

\* Mutant of TravelTime: the quotient the wrong way round.
TravelTimeInverted(z, r, group_speed) == Divide(group_speed, Hypot(z, r))

\* line 85
TravelTime(z, r, group_speed) == Divide(Hypot(z, r), group_speed)

\* line 86
TravelTimePieces(travel_time) == << Fmt12_3(travel_time), NL >>

\* numpy reports a floating-point error of a scalar operation through the
\* warnings module: under the default filter a RuntimeWarning is shown on
\* standard error once for every text and source line.
Warn(err, warn) ==
    LET text == IF warn = "divide"
                THEN "RuntimeWarning: divide by zero encountered in scalar divide"
                ELSE "RuntimeWarning: invalid value encountered in scalar divide"
    IN  IF warn = "none" \/ \E n \in 1..Len(err) : err[n] = text
        THEN err
        ELSE Append(err, text)

----------------------------------------------------------------------------
(* Inputs *)

Phases == { <<"I", "s">>, <<"P">>, <<"a", "/", "b">> }

SpeedTexts ==
    { <<"0", ".", "3", "4">>, <<"2", ".", "5">>, <<"0">>,
      <<"-", "0", ".", "3", "4">>, <<"-", "0", ".", "0">>, <<"a", "b", "c">> }

\* The command lines: the options given, and the texts after -p and -c.
CommandLines ==
    { [opts |-> o,
       p    |-> IF "-p" \in o THEN ph ELSE <<>>,
       c    |-> IF "-c" \in o THEN sp ELSE <<>>] :
          o \in SUBSET {"-p", "-c", "-v"}, ph \in Phases, sp \in SpeedTexts }

\* What the working directory may hold before the first invocation.
OldContent == << "left over", NL >>

InitialFileSystems ==
    { [n \in S |-> OldContent] : S \in SUBSET {FileName(<<"I", "s">>), FileName(<<"P">>)} }

\* line 28, in thousandths of a degree
FixedDistances ==
    << 0, 100, 500, 1000, 5000, 10000, 15000, 20000, 25000, 30000 >>

\* A grid of n depths, 2 km apart from 0.0 km on.
DepthGrid(n) == [m \in 1..n |-> Fin(FALSE, (m - 1) * 2000)]

\* A grid of n distances: the distances of line 28, continued in steps of 5
\* degrees.
DistanceGrid(n) ==
    [m \in 1..n |-> Fin(FALSE, IF m <= 10 THEN FixedDistances[m]
                                ELSE 30000 + (m - 10) * 5000)]

----------------------------------------------------------------------------
(* Initial states *)

\* The state in which no process has run yet.
NoProcess(runs) ==
    /\ argv = NoCommandLine
    /\ args = NoArgs
    /\ file_name = NoFile
    /\ f = NoFile
    /\ pc = "idle"
    /\ i = 0
    /\ k = 0
    /\ stdout = <<>>
    /\ stderr = <<>>
    /\ status = Running
    /\ budget = runs
    /\ prev = NoRun
    /\ fs0 = fs

\* lines 27-29: the grid the script defines
Init ==
    /\ fs \in InitialFileSystems
    /\ z_samples = << Fin(FALSE, 0) >>
    /\ d_samples = DistanceGrid(10)
    /\ r_samples = [m \in 1..10 |-> degrees2kilometers(d_samples[m])]
    /\ NoProcess(MaxRuns)

\* Any grid the table format allows, and one invocation on it.
InitGrid ==
    /\ fs = [n \in {FileName(<<"I", "s">>)} |-> OldContent]
    /\ z_samples \in { DepthGrid(n) : n \in 1..MaxDepths }
    /\ d_samples \in { DistanceGrid(n) : n \in 1..MaxDists }
    /\ r_samples = [m \in 1..Len(d_samples) |-> degrees2kilometers(d_samples[m])]
    /\ NoProcess(1)

----------------------------------------------------------------------------
(* Actions *)

grid == <<z_samples, d_samples, r_samples>>

\* The shell starts the script with a command line.
Start ==
    /\ pc \in {"idle", "done", "usage", "abort"}
    /\ budget > 0
    /\ \E cl \in CommandLines : argv' = cl
    /\ budget' = budget - 1
    /\ prev' = IF pc = "done"
               THEN [phase |-> args.phase, group_speed |-> args.group_speed,
                     verbose |-> args.verbose, file_name |-> file_name,
                     content |-> fs[file_name]]
               ELSE prev
    /\ fs0' = fs
    /\ args' = NoArgs
    /\ file_name' = NoFile
    /\ pc' = "parse"
    /\ i' = 0
    /\ k' = 0
    /\ stdout' = <<>>
    /\ stderr' = <<>>
    /\ status' = Running
    /\ UNCHANGED <<fs, f, grid>>

\* Mutant of ParseArguments: -p declared without required=True, so that a
\* command line without it parses and the phase is None.
ParseArgumentsOptionalPhase ==
    /\ pc = "parse"
    /\ IF "-c" \notin argv.opts
       THEN /\ stderr' = <<"usage", "error: the following arguments are required">>
            /\ status' = 2
            /\ pc' = "usage"
            /\ UNCHANGED args
       ELSE IF ~ParseFloat(argv.c).ok
       THEN /\ stderr' = <<"usage", "error: argument -c/--group_speed: invalid float value">>
            /\ status' = 2
            /\ pc' = "usage"
            /\ UNCHANGED args
       ELSE /\ args' = [phase |-> IF "-p" \in argv.opts THEN argv.p
                                  ELSE <<"N", "o", "n", "e">>,
                        group_speed |-> ParseFloat(argv.c).val,
                        verbose |-> "-v" \in argv.opts]
            /\ pc' = "enter"
            /\ UNCHANGED <<stderr, status>>
    /\ UNCHANGED <<fs, grid, argv, file_name, f, i, k, stdout, budget, prev, fs0>>

\* parse_arguments, lines 32-53, called on line 93: a required option left
\* out, or a group speed float() rejects, ends the process with the usage
\* message and status 2.
ParseArguments ==
    /\ pc = "parse"
    /\ IF "-p" \notin argv.opts \/ "-c" \notin argv.opts
       THEN /\ stderr' = <<"usage", "error: the following arguments are required">>
            /\ status' = 2
            /\ pc' = "usage"
            /\ UNCHANGED args
       ELSE IF ~ParseFloat(argv.c).ok
       THEN /\ stderr' = <<"usage", "error: argument -c/--group_speed: invalid float value">>
            /\ status' = 2
            /\ pc' = "usage"
            /\ UNCHANGED args
       ELSE /\ args' = [phase |-> argv.p, group_speed |-> ParseFloat(argv.c).val,
                        verbose |-> "-v" \in argv.opts]
            /\ pc' = "enter"
            /\ UNCHANGED <<stderr, status>>
    /\ UNCHANGED <<fs, grid, argv, file_name, f, i, k, stdout, budget, prev, fs0>>

\* generate_travel_time_table, lines 56-61
Enter ==
    /\ pc = "enter"
    /\ file_name' = FileName(args.phase)
    /\ stdout' = IF args.verbose
                 THEN << "Generating travel-time table for phase: " \o Str(args.phase),
                         "Output file: " \o FileName(args.phase),
                         "Group speed: " \o Repr(args.group_speed) >>
                 ELSE stdout
    /\ pc' = "open"
    /\ UNCHANGED <<fs, grid, argv, args, f, i, k, stderr, status, budget, prev, fs0>>

\* line 63: open(file_name, "w") empties the file or creates it; when it
\* fails the exception ends the process.
Open ==
    /\ pc = "open"
    /\ IF CanOpen(args.phase)
       THEN /\ fs' = Truncate(fs, file_name)
            /\ f' = file_name
            /\ pc' = "header"
            /\ UNCHANGED <<stderr, status>>
       ELSE /\ stderr' = Append(stderr, "FileNotFoundError")
            /\ status' = 1
            /\ pc' = "abort"
            /\ UNCHANGED <<fs, f>>
    /\ UNCHANGED <<grid, argv, args, file_name, i, k, stdout, budget, prev, fs0>>

\* Mutant of WriteHeader: the diagnostics of a verbose run written to the
\* file as well.
WriteHeaderEcho ==
    /\ pc = "header"
    /\ fs' = Write(fs, f,
                   (IF args.verbose
                    THEN << "Output file: " \o file_name, NL >>
                    ELSE <<>>) \o HeaderPieces(args.phase, z_samples))
    /\ i' = 1
    /\ pc' = IF Len(z_samples) > 0 THEN "depth" ELSE "count"
    /\ UNCHANGED <<grid, argv, args, file_name, f, k, stdout, stderr, status,
                   budget, prev, fs0>>

\* lines 65-66
WriteHeader ==
    /\ pc = "header"
    /\ fs' = Write(fs, f, HeaderPieces(args.phase, z_samples))
    /\ i' = 1
    /\ pc' = IF Len(z_samples) > 0 THEN "depth" ELSE "count"
    /\ UNCHANGED <<grid, argv, args, file_name, f, k, stdout, stderr, status,
                   budget, prev, fs0>>

\* lines 69-72, one pass
WriteDepthSample ==
    /\ pc = "depth"
    /\ fs' = Write(fs, f, SamplePieces(z_samples, i))
    /\ i' = i + 1
    /\ pc' = IF i < Len(z_samples) THEN "depth" ELSE "count"
    /\ UNCHANGED <<grid, argv, args, file_name, f, k, stdout, stderr, status,
                   budget, prev, fs0>>

\* line 75
WriteDistanceCount ==
    /\ pc = "count"
    /\ fs' = Write(fs, f, DistanceCountPieces(d_samples))
    /\ i' = 1
    /\ pc' = IF Len(d_samples) > 0 THEN "distance"
             ELSE IF Len(z_samples) > 0 THEN "block" ELSE "close"
    /\ UNCHANGED <<grid, argv, args, file_name, f, k, stdout, stderr, status,
                   budget, prev, fs0>>

\* lines 76-79, one pass
WriteDistanceSample ==
    /\ pc = "distance"
    /\ fs' = Write(fs, f, SamplePieces(d_samples, i))
    /\ i' = IF i < Len(d_samples) THEN i + 1 ELSE 1
    /\ pc' = IF i < Len(d_samples) THEN "distance"
             ELSE IF Len(z_samples) > 0 THEN "block" ELSE "close"
    /\ UNCHANGED <<grid, argv, args, file_name, f, k, stdout, stderr, status,
                   budget, prev, fs0>>

\* lines 82-83, one pass of the outer loop up to the inner loop
WriteBlockHeader ==
    /\ pc = "block"
    /\ fs' = Write(fs, f, BlockHeaderPieces(z_samples[i]))
    /\ k' = 1
    /\ pc' = IF Len(r_samples) > 0 THEN "time"
             ELSE IF i < Len(z_samples) THEN "block" ELSE "close"
    /\ i' = IF Len(r_samples) > 0 THEN i ELSE i + 1
    /\ UNCHANGED <<grid, argv, args, file_name, f, stdout, stderr, status,
                   budget, prev, fs0>>

\* Mutant of WriteTravelTime: the inner loop over reversed(r_samples).
WriteTravelTimeReversed ==
    /\ pc = "time"
    /\ LET t == TravelTime(z_samples[i], r_samples[Len(r_samples) + 1 - k],
                           args.group_speed)
       IN  /\ fs' = Write(fs, f, TravelTimePieces(t.val))
           /\ stderr' = Warn(stderr, t.warn)
    /\ k' = IF k < Len(r_samples) THEN k + 1 ELSE 1
    /\ i' = IF k < Len(r_samples) THEN i ELSE i + 1
    /\ pc' = IF k < Len(r_samples) THEN "time"
             ELSE IF i < Len(z_samples) THEN "block" ELSE "close"
    /\ UNCHANGED <<grid, argv, args, file_name, f, stdout, status, budget,
                   prev, fs0>>

\* lines 84-86, one pass of the inner loop
WriteTravelTime ==
    /\ pc = "time"
    /\ LET t == TravelTime(z_samples[i], r_samples[k], args.group_speed)
       IN  /\ fs' = Write(fs, f, TravelTimePieces(t.val))
           /\ stderr' = Warn(stderr, t.warn)
    /\ k' = IF k < Len(r_samples) THEN k + 1 ELSE 1
    /\ i' = IF k < Len(r_samples) THEN i ELSE i + 1
    /\ pc' = IF k < Len(r_samples) THEN "time"
             ELSE IF i < Len(z_samples) THEN "block" ELSE "close"
    /\ UNCHANGED <<grid, argv, args, file_name, f, stdout, status, budget,
                   prev, fs0>>

\* the end of the with block of line 63, lines 88-89, and the end of the
\* script
Close ==
    /\ pc = "close"
    /\ f' = NoFile
    /\ stdout' = IF args.verbose
                 THEN Append(stdout, "Travel-time table successfully written to "
                                         \o file_name)
                 ELSE stdout
    /\ status' = 0
    /\ pc' = "done"
    /\ UNCHANGED <<fs, grid, argv, args, file_name, i, k, stderr, budget, prev, fs0>>

Next ==
    \/ Start
    \/ ParseArguments
    \/ Enter
    \/ Open
    \/ WriteHeader
    \/ WriteDepthSample
    \/ WriteDistanceCount
    \/ WriteDistanceSample
    \/ WriteBlockHeader
    \/ WriteTravelTime
    \/ Close

Spec == Init /\ [][Next]_vars

SpecGrid == InitGrid /\ [][Next]_vars

----------------------------------------------------------------------------
(* Reading a written table *)

RECURSIVE SplitLines(_, _, _, _)
\* the pieces from the n-th on, cut at every NL
SplitLines(c, n, done, cur) ==
    IF n > Len(c) THEN [lines |-> done, rest |-> cur]
    ELSE IF c[n] = NL THEN SplitLines(c, n + 1, Append(done, cur), <<>>)
    ELSE SplitLines(c, n + 1, done, Append(cur, c[n]))

\* the lines of a content, each without its newline
Lines(c) == SplitLines(c, 1, <<>>, <<>>).lines

\* what follows the last newline of a content
Unterminated(c) == SplitLines(c, 1, <<>>, <<>>).rest

\* the file of the process that has just ended normally
Table == Lines(fs[file_name])

SetMin(S) == CHOOSE x \in S : \A y \in S : x <= y

Counts == 0..(MaxDepths + MaxDists + 10)

DepthCountLine(n) == << IntStr(n) \o " # number of depth samples" >>

DistanceCountLine(n) == << IntStr(n) \o " # number of distance samples" >>

DistanceCountLines == { DistanceCountLine(n) : n \in Counts }

IsDistanceCount(l) == l \in DistanceCountLines

BlockHeaderLines ==
    { << "# Travel-time/amplitude for z = " \o Fmt8_2(z_samples[m]) >> :
          m \in 1..Len(z_samples) }

IsBlockHeader(l) == l \in BlockHeaderLines

\* where the distance-count line and the block headers stand in a table
DistanceCountAt(t) == {m \in 1..Len(t) : IsDistanceCount(t[m])}

HeadersAt(t) ==
    LET headers == BlockHeaderLines
    IN  {m \in 1..Len(t) : t[m] \in headers}

RECURSIVE ValuesIn(_, _, _)
\* the number of pieces on the lines a..b of a table
ValuesIn(t, a, b) == IF a > b THEN 0 ELSE Len(t[a]) + ValuesIn(t, a + 1, b)

\* the number of lines n samples take
SampleLineCount(n) == (n + 9) \div 10

\* the line of the k-th travel time of the b-th block, in the layout of the
\* format
TimeLineAt(b, n) ==
    3 + SampleLineCount(Len(z_samples)) + SampleLineCount(Len(d_samples))
      + (b - 1) * (1 + Len(d_samples)) + 1 + n

Positive(x) == x.kind = "fin" /\ ~x.neg /\ x.mag > 0

ZeroOrNegative(x) == x.kind = "fin" /\ (x.neg \/ x.mag = 0)

SameInputs == prev.phase = args.phase /\ prev.group_speed = args.group_speed

----------------------------------------------------------------------------
(* C1 *)

\* C1: when an invocation ends normally and the invocation that ended
\* normally before it had the same phase, group speed and verbosity, it
\* leaves the same file with the same content as that one did, whatever the
\* file held when it started.
C1_Idempotent ==
    (pc = "done" /\ SameInputs /\ prev.verbose = args.verbose)
        => /\ file_name = prev.file_name
           /\ fs[file_name] = prev.content

\* the second of two equal invocations in a row has ended: it found the
\* first one's table in the file
C1_Witness ==
    /\ pc = "done"
    /\ SameInputs
    /\ prev.verbose = args.verbose
    /\ file_name \in DOMAIN fs0
    /\ fs0[file_name] = prev.content
    /\ prev.content # <<>>

\* C1, second half: the first invocation on a file that held something
\* leaves nothing of it.
C1_WitnessOverwrite ==
    /\ pc = "done"
    /\ file_name \in DOMAIN fs0
    /\ fs0[file_name] = OldContent

----------------------------------------------------------------------------
(* C2 *)

\* C2: in a finished table the count on the second line is the number of
\* values on the lines between it and the distance-count line.
C2_DepthCountMatches ==
    pc = "done" =>
        LET t  == Table
            dc == DistanceCountAt(t)
        IN  /\ dc # {}
            /\ SetMin(dc) >= 3
            /\ \E n \in Counts :
                   /\ t[2] = DepthCountLine(n)
                   /\ n = ValuesIn(t, 3, SetMin(dc) - 1)

\* a table whose depth samples do not fit on one line
C2_Witness ==
    /\ pc = "done"
    /\ Len(z_samples) > 10
    /\ Table[2] = DepthCountLine(Len(z_samples))

----------------------------------------------------------------------------
(* C3 *)

\* C3: in a finished table every block header is followed by exactly as many
\* lines, of one travel time each, as the distance-count line declares, and
\* that is the number of kilometer distances.
C3_DistanceCountMatches ==
    pc = "done" =>
        LET t  == Table
            dc == DistanceCountAt(t)
            hs == HeadersAt(t)
        IN  /\ dc # {}
            /\ hs # {}
            /\ \E n \in Counts :
                   /\ t[SetMin(dc)] = DistanceCountLine(n)
                   /\ n = Len(r_samples)
                   /\ \A h \in hs :
                          LET next == SetMin({x \in hs : x > h} \cup {Len(t) + 1})
                          IN  /\ next - h - 1 = n
                              /\ \A m \in (h + 1)..(next - 1) : Len(t[m]) = 1

\* a table of several blocks
C3_Witness ==
    /\ pc = "done"
    /\ Cardinality(HeadersAt(Table)) > 1
    /\ Len(r_samples) > 1

----------------------------------------------------------------------------
(* C4 *)

\* C4: when an invocation ends normally and the invocation that ended
\* normally before it differed from it only in verbosity, both left the same
\* file with the same content; only the verbose one printed anything.
C4_VerboseNoEffect ==
    (pc = "done" /\ SameInputs /\ prev.verbose # args.verbose)
        => /\ file_name = prev.file_name
           /\ fs[file_name] = prev.content
           /\ (stdout # <<>>) <=> args.verbose

\* a verbose invocation after a quiet one with the same phase and speed
C4_Witness ==
    /\ pc = "done"
    /\ SameInputs
    /\ ~prev.verbose
    /\ args.verbose
    /\ prev.content # <<>>

----------------------------------------------------------------------------
(* C5 *)

\* the lines a..b of t hold the n values of samples, ten to a line and the
\* rest on the last line
Wrapped(t, a, b, samples) ==
    LET n == Len(samples)
    IN  /\ b - a + 1 = SampleLineCount(n)
        /\ b <= Len(t)
        /\ \A j \in 1..(b - a + 1) :
               LET l == t[a + j - 1]
               IN  /\ Len(l) >= 1
                   /\ Len(l) <= 10
                   /\ Len(l) = (IF j < b - a + 1 THEN 10 ELSE n - 10 * (j - 1))
                   /\ \A c \in 1..Len(l) : l[c] = Fmt8_2(samples[10 * (j - 1) + c])

\* C5: in a finished table the depth samples (between the two count lines)
\* and the distance samples (between the distance-count line and the first
\* block header) stand ten to a line, on ceil(N / 10) lines none of which is
\* empty.
C5_Wrapping ==
    pc = "done" =>
        LET t  == Table
            dc == DistanceCountAt(t)
            hs == HeadersAt(t)
        IN  /\ dc # {}
            /\ hs # {}
            /\ Wrapped(t, 3, SetMin(dc) - 1, z_samples)
            /\ Wrapped(t, SetMin(dc) + 1, SetMin(hs) - 1, d_samples)

\* a section that ends on a full line, and one that ends on a line of one
C5_Witness ==
    /\ pc = "done"
    /\ Len(z_samples) = 10
    /\ Len(d_samples) = 11

----------------------------------------------------------------------------
(* C6 *)

\* C6: for a positive group speed, the travel times of every block of a
\* finished table are the formatted values of finite, non-negative times
\* that do not decrease from one line to the next.
C6_Monotone ==
    (pc = "done" /\ Positive(args.group_speed)) =>
        LET t == Table
        IN  \A b \in 1..Len(z_samples) : \A n \in 1..(Len(r_samples) - 1) :
                LET t1 == TravelTime(z_samples[b], r_samples[n], args.group_speed).val
                    t2 == TravelTime(z_samples[b], r_samples[n + 1], args.group_speed).val
                IN  /\ TimeLineAt(b, n + 1) <= Len(t)
                    /\ t[TimeLineAt(b, n)] = << Fmt12_3(t1) >>
                    /\ t[TimeLineAt(b, n + 1)] = << Fmt12_3(t2) >>
                    /\ t1.kind = "fin" /\ t2.kind = "fin"
                    /\ ~t1.neg /\ ~t2.neg
                    /\ t1.mag <= t2.mag

\* a finished table for a positive speed with a block below the surface
C6_Witness ==
    /\ pc = "done"
    /\ Positive(args.group_speed)
    /\ Len(z_samples) > 1
    /\ Len(r_samples) > 10

----------------------------------------------------------------------------
(* C7 *)

\* C7: for a positive group speed, depth 0.0 and distance 0.0 the first
\* travel-time line of the first block reads 0.000 in its field of 12.
C7_ZeroDistance ==
    (/\ pc = "done"
     /\ Positive(args.group_speed)
     /\ z_samples[1] = Fin(FALSE, 0)
     /\ d_samples[1] = Fin(FALSE, 0))
        => LET t == Table
           IN  /\ TimeLineAt(1, 1) <= Len(t)
               /\ t[TimeLineAt(1, 1)] = << "       0.000" >>

\* a finished table for a positive speed
C7_Witness ==
    /\ pc = "done"
    /\ Positive(args.group_speed)
    /\ z_samples[1] = Fin(FALSE, 0)
    /\ d_samples[1] = Fin(FALSE, 0)

----------------------------------------------------------------------------
(* C8 *)

BadCommandLine ==
    \/ "-p" \notin argv.opts
    \/ "-c" \notin argv.opts
    \/ argv.c = <<"a", "b", "c">>

\* C8: once a command line that lacks -p or -c, or whose group speed is no
\* number, has been parsed, the process has ended with the usage message and
\* a non-zero status, generate_travel_time_table has not been entered, no
\* file is open and the working directory is as the process found it.
C8_ArgumentErrorBeforeIO ==
    (BadCommandLine /\ pc \notin {"idle", "parse"})
        => /\ pc = "usage"
           /\ status \notin {0, Running}
           /\ Len(stderr) > 0 /\ stderr[1] = "usage"
           /\ file_name = NoFile
           /\ f = NoFile
           /\ fs = fs0

\* a process ended by a group speed that is no number, in a directory that
\* holds a table
C8_Witness ==
    /\ pc = "usage"
    /\ "-p" \in argv.opts
    /\ "-c" \in argv.opts
    /\ FileName(argv.p) \in DOMAIN fs

\* a process ended by a missing option
C8_WitnessMissing ==
    /\ pc = "usage"
    /\ "-c" \notin argv.opts

----------------------------------------------------------------------------
(* C9 *)

\* what the travel-time lines of a finished table for a degenerate speed
\* hold: nan or an infinity for speed zero, and for a negative speed the
\* negated travel times of the speed of the same magnitude
DegenerateTimes ==
    LET t == Table
        s == args.group_speed
    IN  \A b \in 1..Len(z_samples) : \A n \in 1..Len(r_samples) :
            /\ TimeLineAt(b, n) <= Len(t)
            /\ LET l  == t[TimeLineAt(b, n)]
                   tt == TravelTime(z_samples[b], r_samples[n], Fin(FALSE, s.mag)).val
               IN  IF s.mag = 0
                   THEN l \in { << "         nan" >>, << "         inf" >>,
                                << "        -inf" >> }
                   ELSE l = << Fmt12_3(Fin(TRUE, tt.mag)) >>

CompleteTable ==
    LET t == Table
    IN  /\ Len(t) = TimeLineAt(Len(z_samples), Len(r_samples))
        /\ Unterminated(fs[file_name]) = <<>>
        /\ Cardinality(HeadersAt(t)) = Len(z_samples)

Degenerate == ParseFloat(argv.c).ok /\ ZeroOrNegative(ParseFloat(argv.c).val)

OnlyNumpyWarnings ==
    \A n \in 1..Len(stderr) :
        stderr[n] \in
            { "RuntimeWarning: divide by zero encountered in scalar divide",
              "RuntimeWarning: invalid value encountered in scalar divide" }

C9_WitnessNegative ==
    /\ pc = "done"
    /\ args.group_speed.neg
    /\ args.group_speed.mag # 0

----------------------------------------------------------------------------
(* C10 *)

\* the j-th line of a sample section
SampleLine(samples, j) ==
    [c \in 1..Min(10, Len(samples) - 10 * (j - 1)) |->
        Fmt8_2(samples[10 * (j - 1) + c])]

\* the n-th line of the table of the format for the grid and the inputs
ExpectedLine(n) ==
    LET lz   == SampleLineCount(Len(z_samples))
        ld   == SampleLineCount(Len(d_samples))
        nd   == Len(d_samples)
        body == n - (3 + lz + ld)
        b    == ((body - 1) \div (1 + nd)) + 1
        m    == (body - 1) % (1 + nd)
    IN  IF n = 1 THEN << "n # " \o Str(args.phase) \o " travel-time tables" >>
        ELSE IF n = 2 THEN DepthCountLine(Len(z_samples))
        ELSE IF n <= 2 + lz THEN SampleLine(z_samples, n - 2)
        ELSE IF n = 3 + lz THEN DistanceCountLine(nd)
        ELSE IF n <= 3 + lz + ld THEN SampleLine(d_samples, n - (3 + lz))
        ELSE IF m = 0
        THEN << "# Travel-time/amplitude for z = " \o Fmt8_2(z_samples[b]) >>
        ELSE << Fmt12_3(TravelTime(z_samples[b],
                                   degrees2kilometers(d_samples[m]),
                                   args.group_speed).val) >>

\* C10: a finished table is, line by line and with nothing after its last
\* newline: the title, the depth count, the depth samples, the distance
\* count, the distance samples in degrees, and for every depth in order its
\* block header and the travel times of the distances in order.
C10_Order ==
    pc = "done" =>
        /\ Unterminated(fs[file_name]) = <<>>
        /\ LET t == Table
           IN  /\ Len(t) = 3 + SampleLineCount(Len(z_samples))
                             + SampleLineCount(Len(d_samples))
                             + Len(z_samples) * (1 + Len(d_samples))
               /\ \A n \in 1..Len(t) : t[n] = ExpectedLine(n)

\* a finished table of several blocks of several distances
C10_Witness ==
    /\ pc = "done"
    /\ Len(z_samples) >= 3
    /\ Len(d_samples) >= 3

=============================================================================
